---- MODULE Spec2Model ----
(***************************************************************************)
(* Model of addon/pyUtils/exports/export_list.py: the registry of export   *)
(* declarations (the module-level list `exports`), the name resolver       *)
(* get_export_statement, the header / footer builders and write_def_file,  *)
(* which renders the registry into a linker control file.                  *)
(*                                                                         *)
(* Python strings are TLA+ strings (concatenation is \o), so a file is the *)
(* exact sequence of characters the code writes.  Python's None is the     *)
(* empty tuple and a present optional value v is the one-element tuple     *)
(* <<v>>.                                                                  *)
(***************************************************************************)
EXTENDS Integers, Sequences, FiniteSets, TLC

VARIABLES exports, files, call, ret, todo

vars == <<exports, files, call, ret, todo>>

(***************************************************************************)
(* Program constants (export_list.py, lines 221-230).                      *)
(***************************************************************************)
GNU == 1
IFORT == 2
PGF90 == 3
GENERIC == 4

LD_GCC == 1
LD_CLANG == 2
LD_MSVC == 3

(***************************************************************************)
(* Bounds of the model.                                                    *)
(***************************************************************************)
MaxExports == 3

None == <<>>
Some(v) == <<v>>

\* The closed sets of identities, and the identities callers can pass: the
\* functions take any value, so one value outside each closed set is added.
Compilers == {GNU, IFORT, PGF90, GENERIC}
Linkers == {LD_GCC, LD_CLANG, LD_MSVC}
AnyCompiler == Compilers \cup {GENERIC + 1}
AnyLinker == Linkers \cup {LD_MSVC + 1}

\* Names taken from the registry of the source file.
Methods == {"zfac", "thermopack_init_c", "thermopack_getkij"}
Modules == {"eos", "eostv"}
OptModules == {None} \cup {Some(m) : m \in Modules}

\* Every declaration shape get_export_statement can be handed.
AnyDecl == [method : Methods, module : OptModules, isBindC : BOOLEAN]

\* The declarations registered in the model: the three shapes of the source
\* file's registry (lines 84, 111, 128) and the one it does not use.
RegDecls ==
    { [method |-> "thermopack_init_c", module |-> None, isBindC |-> TRUE],
      [method |-> "thermopack_getkij", module |-> None, isBindC |-> FALSE],
      [method |-> "zfac", module |-> Some("eos"), isBindC |-> FALSE],
      [method |-> "zfac", module |-> Some("eos"), isBindC |-> TRUE] }

\* Values datetime.today().isoformat() can produce.
Timestamps == {"2024-05-01T10:00:00", "2024-05-01T10:00:00.000001"}

\* Output paths: the three of the entry point.
MainCalls ==
    { [compiler |-> GENERIC, linker |-> LD_GCC,
       filename |-> "libthermopack_export.version"],
      [compiler |-> GENERIC, linker |-> LD_CLANG,
       filename |-> "libthermopack_export.symbols"],
      [compiler |-> IFORT, linker |-> LD_MSVC,
       filename |-> "thermopack.def"] }
Paths == {c.filename : c \in MainCalls}

WritePaths == {"thermopack.def"}

\* A path holds no file, or a file with some content.
NoFile == [exists |-> FALSE, data |-> ""]
File(d) == [exists |-> TRUE, data |-> d]
PriorFiles == {NoFile, File("stale content\n")}

\* get_export_statement with the C-binding test made before the module
\* test.
get_export_statement_bindc_first(compiler, export_info) ==
    IF export_info.isBindC
    THEN export_info.method
    ELSE IF export_info.module = None
    THEN export_info.method \o "_"
    ELSE IF compiler = GNU
    THEN "__" \o export_info.module[1] \o "_MOD_" \o export_info.method
    ELSE IF compiler = IFORT
    THEN export_info.module[1] \o "_mp_" \o export_info.method \o "_"
    ELSE IF compiler = PGF90
    THEN export_info.module[1] \o "_" \o export_info.method \o "_"
    ELSE IF compiler = GENERIC
    THEN "*" \o export_info.method \o "*"
    ELSE ""

\* get_export_statement with the GENERIC wildcard applied before the module
\* test.
get_export_statement_generic_first(compiler, export_info) ==
    IF compiler = GENERIC
    THEN "*" \o export_info.method \o "*"
    ELSE IF export_info.module = None
    THEN IF export_info.isBindC
         THEN export_info.method
         ELSE export_info.method \o "_"
    ELSE IF compiler = GNU
    THEN "__" \o export_info.module[1] \o "_MOD_" \o export_info.method
    ELSE IF compiler = IFORT
    THEN export_info.module[1] \o "_mp_" \o export_info.method \o "_"
    ELSE IF compiler = PGF90
    THEN export_info.module[1] \o "_" \o export_info.method \o "_"
    ELSE ""

(***************************************************************************)
(* get_export_statement (lines 5-27).                                      *)
(***************************************************************************)
get_export_statement(compiler, export_info) ==
    IF export_info.module = None
    THEN IF export_info.isBindC
         THEN export_info.method
         ELSE export_info.method \o "_"
    ELSE IF compiler = GNU
         THEN "__" \o export_info.module[1] \o "_MOD_" \o export_info.method
         ELSE IF compiler = IFORT
         THEN export_info.module[1] \o "_mp_" \o export_info.method \o "_"
         ELSE IF compiler = PGF90
         THEN export_info.module[1] \o "_" \o export_info.method \o "_"
         ELSE IF compiler = GENERIC
         THEN "*" \o export_info.method \o "*"
         ELSE ""

(***************************************************************************)
(* get_export_header (lines 30-42); now is datetime.today().isoformat().   *)
(***************************************************************************)
get_export_header(linker, now) ==
    LET header == "# File generated by thermopack/addon/pyUtils/exports/export_list.py"
                  \o "\n# Time stamp: " \o now
    IN  IF linker = LD_GCC
        THEN header \o "\nlibthermopack {\n# Explicit list of symbols to be exported\n  global:"
        ELSE IF linker = LD_CLANG
        THEN header \o "\n# Explicit list of symbols to be exported"
        ELSE IF linker = LD_MSVC
        THEN header \o "\n; @NAME@.def : Declares the module parameters.\n\nLIBRARY\n\nEXPORTS"
        ELSE header

\* get_export_footer with the test written `linker == LD_GCC or LD_CLANG`,
\* which Python takes as true for every linker.
get_export_footer_always(linker) ==
    Some("\n  local: *;      # hide everything else\n};")

(***************************************************************************)
(* get_export_footer (lines 45-51).                                        *)
(***************************************************************************)
get_export_footer(linker) ==
    IF linker = LD_GCC
    THEN Some("\n  local: *;      # hide everything else\n};")
    ELSE None

\* The loop of write_def_file skipping a declaration equal to an earlier one.
RECURSIVE body_lines_dedup(_, _, _, _)
body_lines_dedup(compiler, linker, reg, i) ==
    IF i > Len(reg)
    THEN <<>>
    ELSE LET export_statement == get_export_statement(compiler, reg[i])
             rest == body_lines_dedup(compiler, linker, reg, i + 1)
         IN  IF \E j \in 1..(i - 1) : reg[j] = reg[i]
             THEN rest
             ELSE IF linker = LD_GCC
             THEN <<"\t" \o export_statement \o ";">> \o rest
             ELSE IF linker = LD_CLANG \/ linker = LD_MSVC
             THEN <<"\t" \o export_statement>> \o rest
             ELSE rest

(***************************************************************************)
(* write_def_file, the loop over the registry (lines 60-65): the lines     *)
(* appended for declarations i..Len(reg).                                  *)
(***************************************************************************)
RECURSIVE body_lines(_, _, _, _)
body_lines(compiler, linker, reg, i) ==
    IF i > Len(reg)
    THEN <<>>
    ELSE LET export_statement == get_export_statement(compiler, reg[i])
             rest == body_lines(compiler, linker, reg, i + 1)
         IN  IF linker = LD_GCC
             THEN <<"\t" \o export_statement \o ";">> \o rest
             ELSE IF linker = LD_CLANG \/ linker = LD_MSVC
             THEN <<"\t" \o export_statement>> \o rest
             ELSE rest

(***************************************************************************)
(* write_def_file, the list `lines` it builds (lines 57-68).               *)
(***************************************************************************)
def_file_lines(compiler, linker, reg, now) ==
    LET header == get_export_header(linker, now)
        footer == get_export_footer(linker)
    IN  <<header>> \o body_lines(compiler, linker, reg, 1)
        \o (IF footer # None THEN <<footer[1]>> ELSE <<>>)

(***************************************************************************)
(* write_def_file, the write loop (lines 71-73): every element of `lines`  *)
(* followed by a newline.                                                  *)
(***************************************************************************)
RECURSIVE write_lines(_)
write_lines(lines) ==
    IF lines = <<>>
    THEN ""
    ELSE Head(lines) \o "\n" \o write_lines(Tail(lines))

\* The file opened with mode "a": what is written follows the old content.
open_a_and_write(old, lines) ==
    File(old.data \o write_lines(lines))

(***************************************************************************)
(* write_def_file, open(filename, "w") and the writes (lines 70-73): the   *)
(* file is created or truncated, then holds what was written.              *)
(***************************************************************************)
open_w_and_write(old, lines) ==
    File(write_lines(lines))

\* append_export leaving out a declaration that is already registered.
append_export_unique(reg, method, module, isBindC) ==
    LET d == [method |-> method, module |-> module, isBindC |-> isBindC]
    IN  IF \E j \in 1..Len(reg) : reg[j] = d THEN reg ELSE Append(reg, d)

(***************************************************************************)
(* append_export (lines 76-79): the registry after the call.               *)
(***************************************************************************)
append_export(reg, method, module, isBindC) ==
    Append(reg, [method |-> method, module |-> module, isBindC |-> isBindC])

(***************************************************************************)
(* State.  exports is the module-level list (line 82); files is the file   *)
(* system at the output paths; call is the last call made and ret what it  *)
(* gave back (a function of this module returns, kind "return", or raises, *)
(* kind "raise"); todo is the set of calls of the entry point (lines       *)
(* 232-236) still to run.                                                  *)
(***************************************************************************)
NoCall == [op |-> "none"]
Returned(v) == [kind |-> "return", value |-> v]

Init ==
    /\ exports = <<>>
    /\ files \in {[p \in Paths |-> f] : f \in PriorFiles}
    /\ call = NoCall
    /\ ret = Returned(None)
    /\ todo = MainCalls

\* append_export(method, module, isBindC)
AppendExport(method, module, isBindC) ==
    /\ Len(exports) < MaxExports
    /\ exports' = append_export(exports, method, module, isBindC)
    /\ call' = [op |-> "append_export", method |-> method,
                module |-> module, isBindC |-> isBindC]
    /\ ret' = Returned(None)
    /\ UNCHANGED files

\* write_def_file writing to one fixed path whatever filename is.
WriteDefFile_fixed_path(compiler, linker, filename, now) ==
    /\ files' = [files EXCEPT !["thermopack.def"] =
                    open_w_and_write(files["thermopack.def"],
                        def_file_lines(compiler, linker, exports, now))]
    /\ call' = [op |-> "write_def_file", compiler |-> compiler,
                linker |-> linker, filename |-> filename]
    /\ ret' = Returned(None)
    /\ UNCHANGED exports

\* write_def_file(compiler, linker, filename), run at time now
WriteDefFile(compiler, linker, filename, now) ==
    /\ files' = [files EXCEPT ![filename] =
                    open_w_and_write(files[filename],
                        def_file_lines(compiler, linker, exports, now))]
    /\ call' = [op |-> "write_def_file", compiler |-> compiler,
                linker |-> linker, filename |-> filename]
    /\ ret' = Returned(None)
    /\ UNCHANGED exports

\* get_export_statement(compiler, export_info)
GetExportStatement(compiler, export_info) ==
    /\ call' = [op |-> "get_export_statement", compiler |-> compiler,
                export_info |-> export_info]
    /\ ret' = Returned(get_export_statement(compiler, export_info))
    /\ UNCHANGED <<exports, files, todo>>

\* Steps of a client of the module: it registers declarations and writes
\* manifests in any order.
Register ==
    \E d \in RegDecls :
        AppendExport(d.method, d.module, d.isBindC) /\ UNCHANGED todo

Write ==
    \E compiler \in AnyCompiler, linker \in AnyLinker,
       filename \in WritePaths, now \in Timestamps :
        WriteDefFile(compiler, linker, filename, now) /\ UNCHANGED todo

Next == Register \/ Write

Spec == Init /\ [][Next]_vars

\* The file run as a script: the module-level append_export calls (lines
\* 84-219), then the calls of the entry point (lines 232-236), taken here in
\* any order.
ModuleAppend ==
    /\ todo = MainCalls
    /\ \E d \in RegDecls : AppendExport(d.method, d.module, d.isBindC)
    /\ UNCHANGED todo

MainWrite ==
    \E c \in todo, now \in Timestamps :
        /\ WriteDefFile(c.compiler, c.linker, c.filename, now)
        /\ todo' = todo \ {c}

NextMain == ModuleAppend \/ MainWrite

SpecMain == Init /\ [][NextMain]_vars

\* Calls of the resolver alone, on every declaration shape.
Resolve ==
    \E compiler \in AnyCompiler, export_info \in AnyDecl :
        GetExportStatement(compiler, export_info)

NextResolve == Resolve

SpecResolve == Init /\ [][NextResolve]_vars

(***************************************************************************)
(* Reading a file back as text.                                            *)
(***************************************************************************)
RECURSIVE FirstNewline(_, _)
FirstNewline(s, i) ==
    IF i > Len(s) THEN 0
    ELSE IF SubSeq(s, i, i) = "\n" THEN i
    ELSE FirstNewline(s, i + 1)

\* The lines of a text, each ended by a newline (a last line may lack it).
RECURSIVE TextLines(_)
TextLines(s) ==
    IF s = "" THEN <<>>
    ELSE LET n == FirstNewline(s, 1)
         IN  IF n = 0 THEN <<s>>
             ELSE <<SubSeq(s, 1, n - 1)>> \o TextLines(SubSeq(s, n + 1, Len(s)))

EndsWith(s, t) ==
    /\ Len(s) >= Len(t)
    /\ SubSeq(s, Len(s) - Len(t) + 1, Len(s)) = t

Contains(s, t) ==
    \E i \in 1..(Len(s) - Len(t) + 1) : SubSeq(s, i, i + Len(t) - 1) = t

\* A text without its second line, the time stamp.
WithoutTimestamp(s) ==
    LET n1 == FirstNewline(s, 1)
        n2 == IF n1 = 0 THEN 0 ELSE FirstNewline(s, n1 + 1)
    IN  IF n1 = 0 THEN s
        ELSE IF n2 = 0 THEN SubSeq(s, 1, n1)
        ELSE SubSeq(s, 1, n1) \o SubSeq(s, n2 + 1, Len(s))

\* The number of lines each linker's header and footer take in a manifest.
HeaderLineCount(linker) ==
    IF linker = LD_GCC THEN 5 ELSE IF linker = LD_CLANG THEN 3 ELSE 7
FooterLineCount(linker) ==
    IF linker = LD_GCC THEN 3 ELSE 0

Banner == "# File generated by thermopack/addon/pyUtils/exports/export_list.py"
LinkerHeaderStarts ==
    {"libthermopack {", "# Explicit list of symbols to be exported",
     "; @NAME@.def : Declares the module parameters."}

Wrote == call.op = "write_def_file"
WroteWithin == Wrote /\ call.compiler \in Compilers /\ call.linker \in Linkers

(***************************************************************************)
(* Properties of write_def_file and append_export, checked under Spec.     *)
(***************************************************************************)
\* C3: after write_def_file with a compiler and a linker of the closed sets
\* the file has, between header and footer, exactly one line per declaration
\* of the registry, in registry order, duplicates included; line k is a tab,
\* the resolved name of declaration k, and ";" for GCC-ld only.
C3_BodyLines ==
    WroteWithin =>
        LET L == TextLines(files[call.filename].data)
            H == HeaderLineCount(call.linker)
            n == Len(exports)
        IN  /\ Len(L) = H + n + FooterLineCount(call.linker)
            /\ \A k \in 1..n :
                  L[H + k] = "\t" \o get_export_statement(call.compiler, exports[k])
                              \o (IF call.linker = LD_GCC THEN ";" ELSE "")
            /\ \A k \in 1..n :
                  (call.linker = LD_GCC /\ exports[k].module = None
                   /\ exports[k].isBindC /\ exports[k].method = "thermopack_init_c")
                  => L[H + k] = "\tthermopack_init_c;"

C3_Witness ==
    /\ WroteWithin
    /\ call.linker = LD_GCC
    /\ Len(exports) = 3
    /\ exports[1] = exports[2]
    /\ exports[3].module # None
    /\ exports[1] = [method |-> "thermopack_init_c", module |-> None, isBindC |-> TRUE]
    /\ LET L == TextLines(files[call.filename].data)
       IN  L[6] = "\tthermopack_init_c;" /\ L[7] = "\tthermopack_init_c;"

\* C4: a file written for GCC-ld ends with the footer lines
\* "  local: *;      # hide everything else" and "};", which come after the
\* last body line, for every registry and every compiler; a file written for
\* Clang-ld or MSVC contains no "local:".
C4_Footer ==
    (Wrote /\ call.linker \in Linkers) =>
        LET data == files[call.filename].data
            L == TextLines(data)
            last == HeaderLineCount(call.linker) + Len(exports)
        IN  /\ call.linker = LD_GCC =>
                  /\ EndsWith(data, "  local: *;      # hide everything else\n};\n")
                  /\ Len(L) = last + 3
                  /\ L[last + 2] = "  local: *;      # hide everything else"
                  /\ L[last + 3] = "};"
            /\ call.linker # LD_GCC =>
                  /\ ~Contains(data, "local:")
                  /\ Len(L) = last

C4_Witness ==
    /\ Wrote
    /\ call.linker = LD_GCC
    /\ exports = <<>>
    /\ call.compiler \notin Compilers
    /\ EndsWith(files[call.filename].data, "  global:\n\n  local: *;      # hide everything else\n};\n")

\* C5: the content write_def_file leaves at the path is a function of the
\* registry, the compiler and the linker apart from the time stamp line: it
\* equals, line 2 aside, what the call writes at any other time and on any
\* prior content, and a second call with the same arguments changes nothing
\* but line 2.
C5_Determined ==
    /\ [](Wrote =>
            /\ files[call.filename].exists
            /\ \A now \in Timestamps, old \in PriorFiles :
                  WithoutTimestamp(files[call.filename].data)
                  = WithoutTimestamp(open_w_and_write(old,
                        def_file_lines(call.compiler, call.linker, exports, now)).data))
    /\ [][(Wrote /\ Wrote' /\ call' = call /\ exports' = exports) =>
            WithoutTimestamp(files'[call.filename].data)
            = WithoutTimestamp(files[call.filename].data)]_vars

C5_Witness ==
    /\ Wrote
    /\ call.filename = "thermopack.def"
    /\ files["thermopack.def"].exists
    /\ files["libthermopack_export.version"] = File("stale content\n")
    /\ ~Contains(files["thermopack.def"].data, "stale")
    /\ Contains(files["thermopack.def"].data, "# Time stamp: 2024-05-01T10:00:00.000001\n")
    /\ Len(exports) = 2

\* C7: write_def_file with a compiler or linker outside the closed sets
\* produces no partially correct file: no path ever holds a manifest whose
\* linker header is missing, whose body lines are missing or which lists an
\* empty symbol name.
PartialManifest(data) ==
    LET L == TextLines(data)
    IN  /\ Len(L) >= 2
        /\ L[1] = Banner
        /\ \/ Len(L) = 2
           \/ L[3] \notin LinkerHeaderStarts
           \/ \E k \in 1..Len(L) : L[k] \in {"\t", "\t;"}

C7_NoPartialFile ==
    \A p \in Paths : files[p].exists => ~PartialManifest(files[p].data)

\* C8: append_export rejects a declaration with a module and isBindC true,
\* so every declaration of the registry with a module has isBindC false.
C8_ShapeInvariant ==
    \A i \in 1..Len(exports) :
        exports[i].module # None => ~exports[i].isBindC

\* C9: the registry is append-only: each append_export adds exactly its
\* declaration at the end, also when an equal one is registered, keeping
\* every earlier declaration at its position, and write_def_file leaves the
\* registry unchanged.
C9_AppendOnly ==
    [][/\ call'.op = "append_export" =>
            /\ Len(exports') = Len(exports) + 1
            /\ SubSeq(exports', 1, Len(exports)) = exports
            /\ exports'[Len(exports')] =
                  [method |-> call'.method, module |-> call'.module,
                   isBindC |-> call'.isBindC]
       /\ call'.op = "write_def_file" => exports' = exports]_vars

C9_Witness ==
    /\ call.op = "append_export"
    /\ Len(exports) = 2
    /\ exports[1] = exports[2]
    /\ files["thermopack.def"].exists
    /\ Contains(files["thermopack.def"].data, "# Time stamp")

(***************************************************************************)
(* Property of the entry point, checked under SpecMain.                    *)
(***************************************************************************)
\* C10: the manifests of one run are independent: a write_def_file call
\* changes no path but its own, and whatever the order of the calls each
\* path written holds, the time stamp line aside, the manifest of its own
\* compiler and linker for the registry.
C10_Independent ==
    /\ [][\A p \in Paths :
            (Wrote' /\ call'.filename # p) => files'[p] = files[p]]_vars
    /\ [](\A c \in MainCalls \ todo :
            /\ files[c.filename].exists
            /\ \A now \in Timestamps :
                  WithoutTimestamp(files[c.filename].data)
                  = WithoutTimestamp(write_lines(
                        def_file_lines(c.compiler, c.linker, exports, now))))

C10_Witness ==
    /\ todo = {}
    /\ Len(exports) = 2
    /\ call.op = "write_def_file"
    /\ call.filename = "libthermopack_export.version"
    /\ Contains(files["thermopack.def"].data, "# Time stamp: 2024-05-01T10:00:00\n")
    /\ Contains(files["libthermopack_export.symbols"].data, "# Time stamp: 2024-05-01T10:00:00.000001\n")

(***************************************************************************)
(* Properties of the resolver, checked under SpecResolve.                  *)
(***************************************************************************)
Resolved == call.op = "get_export_statement"

\* C1: for a declaration with a module, get_export_statement returns
\* "__" + module + "_MOD_" + method for GNU, module + "_mp_" + method + "_"
\* for IFORT, module + "_" + method + "_" for PGF90 and "*" + method + "*"
\* for GENERIC, whatever isBindC is; the GENERIC name does not contain the
\* module.  For module "eos" and method "zfac" the four names are
\* __eos_MOD_zfac, eos_mp_zfac_, eos_zfac_ and *zfac*.
C1_ModuleNames ==
    (Resolved /\ call.export_info.module # None /\ call.compiler \in Compilers) =>
        LET module == call.export_info.module[1]
            method == call.export_info.method
            compiler == call.compiler
        IN  /\ ret.kind = "return"
            /\ compiler = GNU => ret.value = "__" \o module \o "_MOD_" \o method
            /\ compiler = IFORT => ret.value = module \o "_mp_" \o method \o "_"
            /\ compiler = PGF90 => ret.value = module \o "_" \o method \o "_"
            /\ compiler = GENERIC => ret.value = "*" \o method \o "*"
            /\ (module = "eos" /\ method = "zfac") =>
                  /\ compiler = GNU => ret.value = "__eos_MOD_zfac"
                  /\ compiler = IFORT => ret.value = "eos_mp_zfac_"
                  /\ compiler = PGF90 => ret.value = "eos_zfac_"
                  /\ compiler = GENERIC => ret.value = "*zfac*"

C1_Witness ==
    /\ Resolved
    /\ call.compiler = IFORT
    /\ call.export_info = [method |-> "zfac", module |-> Some("eos"), isBindC |-> TRUE]
    /\ ret = Returned("eos_mp_zfac_")

\* C2: for a declaration without a module, get_export_statement returns the
\* method name when isBindC is true and the method name followed by one "_"
\* when it is false, for GNU, IFORT, PGF90 and GENERIC alike (no wildcard).
C2_FlatNames ==
    (Resolved /\ call.export_info.module = None /\ call.compiler \in Compilers) =>
        /\ ret.kind = "return"
        /\ call.export_info.isBindC => ret.value = call.export_info.method
        /\ ~call.export_info.isBindC => ret.value = call.export_info.method \o "_"

C2_Witness ==
    /\ Resolved
    /\ call.compiler = GENERIC
    /\ call.export_info = [method |-> "thermopack_getkij", module |-> None, isBindC |-> FALSE]
    /\ ret = Returned("thermopack_getkij_")

\* C6: resolving a declaration with a module against a compiler identity
\* outside {GNU, IFORT, PGF90, GENERIC} is a fatal error: the call does not
\* return a name.
C6_UnknownCompilerFatal ==
    (Resolved /\ call.export_info.module # None /\ call.compiler \notin Compilers) =>
        ret.kind = "raise"
====
